---- MODULE Spec2Model ----
(***************************************************************************)
(* Model of package logger (src/lib/logger/logger.go): a leveled logger    *)
(* whose callers format a line on their own goroutine and hand it over an  *)
(* unbuffered channel to one background goroutine that writes it to the    *)
(* destination.                                                            *)
(*                                                                         *)
(* Strings are sequences of one-character strings.  Every read or write of *)
(* a shared Logger field is a step of its own, so that the unsynchronised  *)
(* reads of l.prio and l.flag interleave with the locked setters.          *)
(***************************************************************************)
EXTENDS Integers, Sequences, FiniteSets

(***************************************************************************)
(* Bounds of the model                                                     *)
(***************************************************************************)
\* number of caller goroutines
NumCallers == 2
\* total number of Logger method calls started over a behaviour
MaxCalls == 2

(***************************************************************************)
(* Flag bits and priorities                                                *)
(***************************************************************************)
Ldate == 1
Ltime == 2
Lmicroseconds == 4
Llongfile == 8
Lshortfile == 16
Lsyslog == 32
LstdFlags == 3

LOG_NONE == 0
LOG_DEBUG == 1
LOG_INFO == 2
LOG_WARNING == 3
LOG_ERR == 4
LOG_CRIT == 5
LOG_EMERG == 6

\* capacity of the pc array handed to runtime.Callers
PcCap == 64

Priorities == LOG_NONE..LOG_EMERG

\* flag & bit # 0, for a single bit
Has(flag, bit) == (flag \div bit) % 2 = 1
\* flag & (b1|b2|..) # 0
HasAny(flag, bits) == \E b \in bits : Has(flag, b)
\* flag | bit, for a single bit
Or(flag, bit) == IF Has(flag, bit) THEN flag ELSE flag + bit

(***************************************************************************)
(* Strings                                                                 *)
(***************************************************************************)
Digit(d) == <<"0", "1", "2", "3", "4", "5", "6", "7", "8", "9">>[d + 1]

\* fmt's %d for an int
RECURSIVE DecimalNat(_)
DecimalNat(n) == IF n < 10 THEN <<Digit(n)>> ELSE DecimalNat(n \div 10) \o <<Digit(n % 10)>>
Decimal(i) == IF i < 0 THEN <<"-">> \o DecimalNat(-i) ELSE DecimalNat(i)

\* the loop of itoa: digits are produced while u > 0 or wid > 0
RECURSIVE itoaLoop(_, _)
itoaLoop(u, wid) ==
  IF u > 0 \/ wid > 0 THEN itoaLoop(u \div 10, wid - 1) \o <<Digit(u % 10)>> ELSE <<>>

\* itoa(i, wid), for i >= 0 (uint(i) = i)
itoa(i, wid) == IF i = 0 /\ wid <= 1 THEN <<"0">> ELSE itoaLoop(i, wid)

RECURSIVE Concat(_)
Concat(ss) == IF ss = <<>> THEN <<>> ELSE Head(ss) \o Concat(Tail(ss))

\* strings.Join(v, sep)
RECURSIVE Join(_, _)
Join(v, sep) ==
  IF v = <<>> THEN <<>>
  ELSE IF Len(v) = 1 THEN v[1]
  ELSE v[1] \o sep \o Join(Tail(v), sep)

IsPrefix(a, b) == Len(a) <= Len(b) /\ SubSeq(b, 1, Len(a)) = a

\* strings.ToUpper, on the letters the model uses
Upper(c) ==
  CASE c = "s" -> "S" [] c = "y" -> "Y" [] c = "l" -> "L" [] c = "o" -> "O"
    [] c = "g" -> "G" [] c = "x" -> "X" [] OTHER -> c
ToUpper(str) == [i \in 1..Len(str) |-> Upper(str[i])]

SYSLOG == <<"S", "Y", "S", "L", "O", "G">>

(***************************************************************************)
(* Formatter: the pieces formatHeader and Output append                    *)
(***************************************************************************)
\* itoa(year, 4) + "/" + itoa(month, 2) + "/" + itoa(day, 2)
DateText(t) == itoa(t.year, 4) \o <<"/">> \o itoa(t.month, 2) \o <<"/">> \o itoa(t.day, 2)

\* " " + itoa(hour, 2) + ":" + itoa(min, 2) + ":" + itoa(sec, 2)
ClockText(t) ==
  <<" ">> \o itoa(t.hour, 2) \o <<":">> \o itoa(t.min, 2) \o <<":">> \o itoa(t.sec, 2)

\* "." + itoa(t.Nanosecond()/1e3, 6)
MicroText(t) == <<".">> \o itoa(t.nsec \div 1000, 6)

\* variant: no priority tag
TagTextNone(prio, header) == header

\* fmt.Sprintf("<%d>:%s", prio, header)
TagText(prio, header) == <<"<">> \o Decimal(prio) \o <<">", ":">> \o header

\* the loop of Output that keeps the final element of the path: i runs from
\* len(file)-1 down to 1 (0-based), so a slash in the first byte is never seen
ShortFile(file) ==
  LET slashes == {j \in 2..Len(file) : file[j] = "/"}
  IN  IF slashes = {} THEN file
      ELSE LET j == CHOOSE k \in slashes : \A m \in slashes : m <= k
           IN  SubSeq(file, j + 1, Len(file))

\* fmt.Sprintf("(%s:%d) ", file, line)
FileInfoText(file, line) == <<"(">> \o file \o <<":">> \o Decimal(line) \o <<")", " ">>

\* buf += s, and a newline when s does not end in one (s is not empty)
WithNewline(buf, s) == buf \o s \o (IF s[Len(s)] # "\n" THEN <<"\n">> ELSE <<>>)

(***************************************************************************)
(* Backtrace                                                               *)
(***************************************************************************)
\* n := runtime.Callers(3, pc): the frames above the skipped ones, as far as
\* pc has room
Callers(stack) == IF Len(stack) < PcCap THEN Len(stack) ELSE PcCap

\* variant: depth never cuts the frames down
BacktraceFramesNoTruncate(depth, n) == n

\* the number of frames the loop of Backtrace renders
BacktraceFrames(depth, n) ==
  IF depth = 0 \/ depth > n THEN n
  ELSE IF n > depth THEN depth
  ELSE n

\* one frame: "file:line [name]", or "*unknown*" when FuncForPC finds nothing
Unknown == <<"*", "u", "n", "k", "n", "o", "w", "n", "*">>
FrameText(f) ==
  IF f.known
  THEN f.file \o <<":">> \o Decimal(f.line) \o <<" ", "[">> \o f.name \o <<"]">>
  ELSE Unknown

Indent == <<"\n", " ", " ", " ", " ">>
BacktraceHead == <<"B", "a", "c", "k", "t", "r", "a", "c", "e", ":">> \o Indent

\* "Backtrace:\n    " + strings.Join(append(v, "\n"), "\n    ")
BacktraceText(depth, stack) ==
  LET n == BacktraceFrames(depth, Callers(stack))
      v == [i \in 1..(IF n > 0 THEN n ELSE 0) |-> FrameText(stack[i])] \o << <<"\n">> >>
  IN  BacktraceHead \o Join(v, Indent)

(***************************************************************************)
(* Leveled methods: priority and call depth                                *)
(***************************************************************************)
Leveled == {"Crit", "Error", "Warn", "Info", "Debug"}

MethodPrio(op) ==
  CASE op = "Crit" -> LOG_CRIT [] op = "Error" -> LOG_ERR [] op = "Warn" -> LOG_WARNING
    [] op = "Info" -> LOG_INFO [] op = "Debug" -> LOG_DEBUG
    [] op \in {"Fatal", "Panic"} -> LOG_EMERG
    [] op \in {"Printf", "Print"} -> LOG_INFO

MethodDepth(op) ==
  CASE op \in {"Crit", "Error", "Debug", "Fatal", "Panic"} -> 2
    [] op \in {"Warn", "Info", "Printf", "Print"} -> 0

\* variant: the comparison with the threshold is strict
LoggableAtStrict(lprio, prio) == lprio >= LOG_NONE /\ prio > lprio

\* l.prio >= LOG_NONE && prio >= l.prio
LoggableAt(lprio, prio) == lprio >= LOG_NONE /\ prio >= lprio

(***************************************************************************)
(* State                                                                   *)
(***************************************************************************)
VARIABLES
  lstate,   \* "none", "active" (a constructor returned the Logger) or "failed"
  prio,     \* Logger.prio
  prefix,   \* Logger.prefix
  flag,     \* Logger.flag
  out,      \* kind of Logger.out: "none", "writer", "file" or "syslog"
  logch,    \* Logger.logch: "nil" or "open" (the channel has no buffer)
  mu,       \* Logger.mu: 0 when free, else the caller that holds it
  wk,       \* the goroutines running ff: worker |-> [pc, s, h]
  writes,   \* the calls of out.Write, in call order
  handed,   \* the strings received from logch, in receive order
  fileOld,  \* what the file NewFilelog opened held before
  cs,       \* the callers: caller |-> position and locals of its current call
  ncalls,   \* calls started so far
  proc      \* the process: [alive, status, by]

vars == <<lstate, prio, prefix, flag, out, logch, mu, wk, writes, handed, fileOld, cs,
          ncalls, proc>>

Procs == 1..NumCallers

ZeroTime == [year |-> 0, month |-> 0, day |-> 0, hour |-> 0, min |-> 0, sec |-> 0, nsec |-> 0]

\* a caller between calls; thr is the threshold Loggable read (-2: none read),
\* hs the indexes in handed of the strings the call handed off
Idle ==
  [pc |-> "idle", op |-> "none", prio |-> 0, cd |-> 0, s |-> <<>>, depth |-> 0,
   now |-> ZeroTime, hdr |-> <<>>, buf |-> <<>>, file |-> <<>>, line |-> 0,
   ival |-> 0, sval |-> <<>>, thr |-> -2, formatted |-> FALSE, hs |-> <<>>,
   ret |-> "none", res |-> "none"]

Running == proc.alive
Usable == Running /\ lstate = "active"

Init ==
  /\ lstate = "none"
  /\ prio = 0
  /\ prefix = <<>>
  /\ flag = 0
  /\ out = "none"
  /\ logch = "nil"
  /\ mu = 0
  /\ wk = <<>>
  /\ writes = <<>>
  /\ handed = <<>>
  /\ fileOld = <<>>
  /\ cs = [p \in Procs |-> Idle]
  /\ ncalls = 0
  /\ proc = [alive |-> TRUE, status |-> 0, by |-> 0]

(***************************************************************************)
(* Construction                                                            *)
(***************************************************************************)
\* variant: newLogger starts ff twice
newLoggerTwoWorkers == {1, 2}

\* variant: newLogger does not start ff
newLoggerNoWorker == {}

\* the goroutines newLogger starts: one, by the single "go ff(ll)"
newLoggerWorkers == {1}

\* newLogger(&Logger{out: o, prio: pr, prefix: pfx, flag: fl})
newLogger(o, pr, pfx, fl) ==
  /\ lstate' = "active"
  /\ out' = o
  /\ prio' = pr
  /\ prefix' = pfx
  /\ flag' = fl
  /\ logch' = "open"
  /\ wk' = [w \in newLoggerWorkers |-> [pc |-> "recv", s |-> <<>>, h |-> 0]]
  /\ UNCHANGED <<mu, writes, handed, cs, ncalls, proc>>

\* variant: the channel is made and ff started before the destination is
\* opened, and stay when the constructor fails
ConstructFailsAfterStart ==
  /\ lstate' = "failed"
  /\ logch' = "open"
  /\ wk' = [w \in newLoggerWorkers |-> [pc |-> "recv", s |-> <<>>, h |-> 0]]
  /\ UNCHANGED <<prio, prefix, flag, out, mu, writes, handed, fileOld, cs, ncalls, proc>>

\* a constructor returns (nil, error): nothing of the Logger exists
ConstructFails ==
  /\ lstate' = "failed"
  /\ UNCHANGED <<prio, prefix, flag, out, logch, mu, wk, writes, handed, fileOld, cs,
                 ncalls, proc>>

New(pr, pfx, fl) ==
  /\ Running /\ lstate = "none"
  /\ newLogger("writer", pr, pfx, fl)
  /\ UNCHANGED fileOld

\* the files of the file system: path |-> what the file holds, or "absent",
\* or "denied" when it cannot be opened
XLog == <<"/", "x", ".", "l", "o", "g">>
OldLog == <<"/", "o", "l", "d", ".", "l", "o", "g">>
NoLog == <<"/", "n", "o", "/", "x">>
Paths == {XLog, OldLog, NoLog}
OldText == <<"o", "l", "d", " ", "l", "o", "g", " ", "l", "i", "n", "e", "\n">>
FileSystem(path) ==
  CASE path = XLog -> [state |-> "absent", data |-> <<>>]
    [] path = OldLog -> [state |-> "present", data |-> OldText \o OldText \o OldText]
    [] OTHER -> [state |-> "denied", data |-> <<>>]

\* os.OpenFile(file, O_WRONLY|O_CREATE|O_SYNC, 0600): an absent file is made
\* empty, a present one is opened at offset 0 and keeps what it holds
OpenFile(path) ==
  LET f == FileSystem(path)
  IN  [ok |-> f.state # "denied", data |-> IF f.state = "present" THEN f.data ELSE <<>>]

FilelogBody(file, pr, pfx, fl) ==
  IF OpenFile(file).ok
  THEN newLogger("file", pr, pfx, fl) /\ fileOld' = OpenFile(file).data
  ELSE ConstructFails

NewFilelog(file, pr, pfx, fl) ==
  /\ Running /\ lstate = "none"
  /\ FilelogBody(file, pr, pfx, fl)

\* syslog.New(syslog.LOG_ERR, "") connects or fails
SyslogBody(connected, pr, pfx, fl) ==
  IF connected
  THEN newLogger("syslog", pr, pfx, Or(fl, Lsyslog)) /\ UNCHANGED fileOld
  ELSE ConstructFails

NewSyslog(connected, pr, pfx, fl) ==
  /\ Running /\ lstate = "none"
  /\ SyslogBody(connected, pr, pfx, fl)

NewLogger(name, connected, pr, pfx, fl) ==
  /\ Running /\ lstate = "none"
  /\ IF ToUpper(name) = SYSLOG
     THEN SyslogBody(connected, pr, pfx, fl)
     ELSE FilelogBody(name, pr, <<>>, fl)

(***************************************************************************)
(* Returning from Output and Backtrace                                     *)
(***************************************************************************)
\* a call has returned: its locals are gone, what it was and did stays on record
Returned(c) ==
  [Idle EXCEPT !.pc = "done", !.op = c.op, !.prio = c.prio, !.s = c.s, !.depth = c.depth,
               !.ival = c.ival, !.sval = c.sval, !.thr = c.thr, !.formatted = c.formatted,
               !.hs = c.hs, !.ret = c.ret, !.res = c.res]

\* where a call goes when Output has returned
AfterOutput(c) ==
  CASE c.op = "Fatal" -> [c EXCEPT !.pc = "bt329", !.depth = 0]
    [] c.op = "Panic" -> [c EXCEPT !.pc = "bt329", !.depth = 5]
    [] OTHER -> Returned(c)

\* where a call goes when Backtrace has returned
AfterBacktrace(c) ==
  CASE c.op = "Fatal" -> [c EXCEPT !.pc = "exit"]
    [] c.op = "Panic" -> [c EXCEPT !.pc = "panic"]
    [] OTHER -> Returned(c)

\* variant: Output reports an error of the destination
OutputReturnIOError == IF \E i \in 1..Len(writes) : writes[i].err THEN "err" ELSE "nil"

\* what Output returns after the hand-off: return nil
OutputReturn == "nil"

\* variant: Output does not test the length of s
OutputEnterNoCheck(c) == [c EXCEPT !.pc = "o275"]

\* Output, line 268: an empty s returns nil at once, without a look at the Logger
OutputEnter(c) ==
  IF Len(c.s) = 0 THEN AfterOutput([c EXCEPT !.ret = "nil"]) ELSE [c EXCEPT !.pc = "o275"]

(***************************************************************************)
(* Callers: starting a call                                                *)
(***************************************************************************)
CanCall(p) == Usable /\ cs[p].pc \in {"idle", "done"} /\ ncalls < MaxCalls

Start(p, rec) ==
  /\ CanCall(p)
  /\ cs' = [cs EXCEPT ![p] = rec]
  /\ ncalls' = ncalls + 1
  /\ UNCHANGED <<lstate, prio, prefix, flag, out, logch, mu, wk, writes, handed, fileOld,
                 proc>>

Step(p, rec) ==
  /\ cs' = [cs EXCEPT ![p] = rec]
  /\ UNCHANGED <<lstate, prio, prefix, flag, out, logch, mu, wk, writes, handed, fileOld,
                 ncalls, proc>>

At(p, pc) == Running /\ cs[p].pc = pc

\* l.Output(calldepth, prio, s), called directly
Output(p, calldepth, pr, s) ==
  Start(p, OutputEnter([Idle EXCEPT !.op = "Output", !.cd = calldepth, !.prio = pr,
                                    !.s = s]))

\* variant: Backtrace prints only when the logger lets LOG_DEBUG through
BacktraceIfLoggable(p, depth) ==
  Start(p, IF prio >= LOG_NONE /\ LOG_DEBUG >= prio
           THEN [Idle EXCEPT !.pc = "bt329", !.op = "Backtrace", !.depth = depth]
           ELSE Returned([Idle EXCEPT !.op = "Backtrace", !.depth = depth]))

Backtrace(p, depth) ==
  Start(p, [Idle EXCEPT !.pc = "bt329", !.op = "Backtrace", !.depth = depth])

Loggable(p, pr) ==
  Start(p, [Idle EXCEPT !.pc = "loggable", !.op = "Loggable", !.prio = pr])

\* Printf, Print, Fatal and Panic format first and call Output
Formats(p, op, s) ==
  Start(p, OutputEnter([Idle EXCEPT !.op = op, !.cd = MethodDepth(op),
                                    !.prio = MethodPrio(op), !.s = s, !.formatted = TRUE]))

Printf(p, s) == Formats(p, "Printf", s)
\* Logger.Print (the bare name is an operator of the standard modules)
LoggerPrint(p, s) == Formats(p, "Print", s)
Fatal(p, s) == Formats(p, "Fatal", s)
Panic(p, s) == Formats(p, "Panic", s)

\* Crit, Error, Warn, Info and Debug ask Loggable first
LeveledCall(p, op, s) ==
  Start(p, [Idle EXCEPT !.pc = "loggable", !.op = op, !.cd = MethodDepth(op),
                        !.prio = MethodPrio(op), !.s = s])

Crit(p, s) == LeveledCall(p, "Crit", s)
Error(p, s) == LeveledCall(p, "Error", s)
Warn(p, s) == LeveledCall(p, "Warn", s)
Info(p, s) == LeveledCall(p, "Info", s)
Debug(p, s) == LeveledCall(p, "Debug", s)

Prio(p) == Start(p, [Idle EXCEPT !.pc = "lock", !.op = "Prio"])
SetPrio(p, pr) == Start(p, [Idle EXCEPT !.pc = "lock", !.op = "SetPrio", !.ival = pr])
Flags(p) == Start(p, [Idle EXCEPT !.pc = "lock", !.op = "Flags"])
SetFlags(p, fl) == Start(p, [Idle EXCEPT !.pc = "lock", !.op = "SetFlags", !.ival = fl])
Prefix(p) == Start(p, [Idle EXCEPT !.pc = "lock", !.op = "Prefix"])
SetPrefix(p, pfx) == Start(p, [Idle EXCEPT !.pc = "lock", !.op = "SetPrefix", !.sval = pfx])

(***************************************************************************)
(* Callers: the steps of a call.  A step holds one access to a shared      *)
(* field, with the local computation that follows it.                      *)
(***************************************************************************)
\* Loggable: reads l.prio, mu not taken.  A leveled method formats and enters
\* Output when it is true and returns when it is false.
LoggableRead(p) ==
  /\ At(p, "loggable")
  /\ LET c == cs[p]
         ok == LoggableAt(prio, c.prio)
     IN  IF c.op = "Loggable"
         THEN Step(p, Returned([c EXCEPT !.thr = prio,
                                         !.res = IF ok THEN "true" ELSE "false"]))
         ELSE IF ok
         THEN Step(p, OutputEnter([c EXCEPT !.thr = prio, !.formatted = TRUE]))
         ELSE Step(p, Returned([c EXCEPT !.thr = prio]))

\* the rest of Output once buf holds tag and header: line 280
OutputAfterHeader(c) ==
  IF c.cd > 0 THEN [c EXCEPT !.pc = "o284"]
  ELSE [c EXCEPT !.pc = "o316", !.buf = WithNewline(c.buf, c.s)]

\* formatHeader has returned hdr: buf = fmt.Sprintf("<%d>:%s", prio, hdr)
HeaderDone(c, hdr) == OutputAfterHeader([c EXCEPT !.hdr = hdr, !.buf = TagText(c.prio, hdr)])

\* variant: the test of the syslog flag is the wrong way round
OutputSyslogTestInverted(p, now) ==
  /\ At(p, "o275")
  /\ LET c == cs[p]
     IN  IF Has(flag, Lsyslog)
         THEN Step(p, [c EXCEPT !.pc = "h232", !.now = now])
         ELSE Step(p, OutputAfterHeader(c))

\* Output, line 275: reads l.flag, mu not taken; time.Now() is any of the times
OutputSyslogTest(p, now) ==
  /\ At(p, "o275")
  /\ LET c == cs[p]
     IN  IF ~Has(flag, Lsyslog)
         THEN Step(p, [c EXCEPT !.pc = "h232", !.now = now])
         ELSE Step(p, OutputAfterHeader(c))

\* formatHeader, line 232: reads l.flag
formatHeaderAny(p) ==
  /\ At(p, "h232")
  /\ LET c == cs[p]
     IN  IF HasAny(flag, {Ldate, Ltime, Lmicroseconds})
         THEN Step(p, [c EXCEPT !.pc = "h233"])
         ELSE Step(p, HeaderDone(c, <<>>))

\* formatHeader, line 233: reads l.flag
formatHeaderDate(p) ==
  /\ At(p, "h233")
  /\ LET c == cs[p]
     IN  Step(p, [c EXCEPT !.pc = "h241",
                           !.hdr = IF Has(flag, Ldate) THEN DateText(c.now) ELSE <<>>])

\* formatHeader, line 241: reads l.flag
formatHeaderTime(p) ==
  /\ At(p, "h241")
  /\ LET c == cs[p]
     IN  IF HasAny(flag, {Ltime, Lmicroseconds})
         THEN Step(p, [c EXCEPT !.pc = "h250", !.hdr = c.hdr \o ClockText(c.now)])
         ELSE Step(p, HeaderDone(c, c.hdr \o <<" ">>))

\* formatHeader, line 250: reads l.flag
formatHeaderMicro(p) ==
  /\ At(p, "h250")
  /\ LET c == cs[p]
     IN  Step(p, HeaderDone(c, c.hdr \o (IF Has(flag, Lmicroseconds)
                                         THEN MicroText(c.now) ELSE <<>>) \o <<" ">>))

\* Output, line 284: reads l.flag; runtime.Caller(calldepth) gives site
OutputFileTest(p, site) ==
  /\ At(p, "o284")
  /\ LET c == cs[p]
     IN  IF HasAny(flag, {Lshortfile, Llongfile})
         THEN Step(p, [c EXCEPT !.pc = "o291",
                                !.file = IF site.ok THEN site.file ELSE <<"?", "?", "?">>,
                                !.line = IF site.ok THEN site.line ELSE 0])
         ELSE Step(p, [c EXCEPT !.pc = "o316", !.buf = WithNewline(c.buf, c.s)])

\* Output, line 291: reads l.flag
OutputShortTest(p) ==
  /\ At(p, "o291")
  /\ LET c == cs[p]
         file == IF Has(flag, Lshortfile) THEN ShortFile(c.file) ELSE c.file
     IN  Step(p, [c EXCEPT !.pc = "o316", !.file = file,
                           !.buf = WithNewline(c.buf \o FileInfoText(file, c.line), c.s)])

\* Backtrace, lines 325-351: the frames of the caller's stack
BacktraceBuild(p, stack) ==
  /\ At(p, "bt329")
  /\ Step(p, [cs[p] EXCEPT !.pc = "bt352", !.buf = BacktraceText(cs[p].depth, stack)])

(***************************************************************************)
(* The hand-off on logch and the goroutine ff                              *)
(***************************************************************************)
\* l.logch <- buf meets s := <-l.logch of a worker waiting to receive
Handoff(p, w, next) ==
  /\ logch = "open"
  /\ wk[w].pc = "recv"
  /\ handed' = Append(handed, cs[p].buf)
  /\ wk' = [wk EXCEPT ![w] = [pc |-> "write", s |-> cs[p].buf, h |-> Len(handed) + 1]]
  /\ cs' = [cs EXCEPT ![p] = [next EXCEPT !.hs = Append(cs[p].hs, Len(handed) + 1),
                                           !.buf = <<>>]]
  /\ UNCHANGED <<lstate, prio, prefix, flag, out, logch, mu, writes, fileOld, ncalls, proc>>

\* variant: Output writes buf to l.out itself
OutputWriteDirect(p) ==
  /\ At(p, "o316")
  /\ writes' = Append(writes, [data |-> cs[p].buf, h |-> 0, by |-> "caller", who |-> p,
                               done |-> FALSE, n |-> 0, err |-> FALSE])
  /\ cs' = [cs EXCEPT ![p] = AfterOutput([cs[p] EXCEPT !.ret = OutputReturn])]
  /\ UNCHANGED <<lstate, prio, prefix, flag, out, logch, mu, wk, handed, fileOld, ncalls,
                 proc>>

\* variant: the send does not wait for a receiver
OutputSendNoWait(p) ==
  /\ At(p, "o316")
  /\ Step(p, AfterOutput([cs[p] EXCEPT !.ret = OutputReturn]))

\* variant: Output takes l.mu before the send and gives it back after
OutputSendLocked(p) ==
  /\ At(p, "o316")
  /\ \/ /\ mu = 0
        /\ mu' = p
        /\ UNCHANGED <<lstate, prio, prefix, flag, out, logch, wk, writes, handed, fileOld,
                       cs, ncalls, proc>>
     \/ /\ mu = p
        /\ \E w \in DOMAIN wk :
             /\ wk[w].pc = "recv"
             /\ handed' = Append(handed, cs[p].buf)
             /\ wk' = [wk EXCEPT ![w] = [pc |-> "write", s |-> cs[p].buf,
                                         h |-> Len(handed) + 1]]
        /\ cs' = [cs EXCEPT ![p] = [AfterOutput([cs[p] EXCEPT !.ret = OutputReturn])
                                      EXCEPT !.hs = Append(cs[p].hs, Len(handed) + 1),
                                             !.buf = <<>>]]
        /\ mu' = 0
        /\ UNCHANGED <<lstate, prio, prefix, flag, out, logch, writes, fileOld, ncalls, proc>>

\* Output, lines 316-317: l.logch <- buf; return nil
OutputSend(p) ==
  /\ At(p, "o316")
  /\ \E w \in DOMAIN wk : Handoff(p, w, AfterOutput([cs[p] EXCEPT !.ret = OutputReturn]))

\* variant: the send gives up when no receiver is waiting
BacktraceSendTimeout(p) ==
  /\ At(p, "bt352")
  /\ \/ \E w \in DOMAIN wk : Handoff(p, w, AfterBacktrace(cs[p]))
     \/ /\ \A w \in DOMAIN wk : wk[w].pc # "recv"
        /\ Step(p, AfterBacktrace(cs[p]))

\* Backtrace, line 352: l.logch <- str
BacktraceSend(p) ==
  /\ At(p, "bt352")
  /\ \E w \in DOMAIN wk : Handoff(p, w, AfterBacktrace(cs[p]))

\* variant: ff gives up when Write fails
ffNextStopOnError(err) == IF err THEN "stopped" ELSE "recv"

\* where ff goes when Write has returned: the result is dropped and the loop
\* receives again
ffNext(err) == "recv"

\* ff, line 155: l.out.Write([]byte(s)) is called
ffWrite(w) ==
  /\ Running
  /\ wk[w].pc = "write"
  /\ writes' = Append(writes, [data |-> wk[w].s, h |-> wk[w].h, by |-> "ff", who |-> w,
                               done |-> FALSE, n |-> 0, err |-> FALSE])
  /\ wk' = [wk EXCEPT ![w].pc = "writing"]
  /\ UNCHANGED <<lstate, prio, prefix, flag, out, logch, mu, handed, fileOld, cs, ncalls,
                 proc>>

\* what a Write of data can return: (len(data), nil), or an error with nothing
\* ("none") or with all but the last byte ("short") written
WriteResults == {"ok", "short"}
WriteCount(data, res) ==
  CASE res = "ok" -> Len(data) [] res = "none" -> 0 [] res = "short" -> Len(data) - 1

\* ff, line 155: Write returns (n, err)
ffWriteReturn(w, res) ==
  /\ Running
  /\ wk[w].pc = "writing"
  /\ LET i == CHOOSE j \in 1..Len(writes) :
                 writes[j].by = "ff" /\ writes[j].who = w /\ ~writes[j].done
     IN  writes' = [writes EXCEPT ![i] = [@ EXCEPT !.done = TRUE, !.err = (res # "ok"),
                                                   !.n = WriteCount(writes[i].data, res)]]
  /\ wk' = [wk EXCEPT ![w] = [pc |-> ffNext(res # "ok"), s |-> <<>>, h |-> 0]]
  /\ UNCHANGED <<lstate, prio, prefix, flag, out, logch, mu, handed, fileOld, cs, ncalls,
                 proc>>

(***************************************************************************)
(* Fatal and Panic: the end of the process                                 *)
(***************************************************************************)
\* Fatal, line 379: os.Exit(1)
Exit(p) ==
  /\ At(p, "exit")
  /\ proc' = [alive |-> FALSE, status |-> 1, by |-> p]
  /\ UNCHANGED <<lstate, prio, prefix, flag, out, logch, mu, wk, writes, handed, fileOld,
                 cs, ncalls>>

\* Panic, line 388: panic(s) unwinds the caller; a deferred recover of the
\* caller stops it, otherwise the runtime ends the process with status 2
PanicRaise(p, recovered) ==
  /\ At(p, "panic")
  /\ IF recovered
     THEN /\ cs' = [cs EXCEPT ![p] = Returned([@ EXCEPT !.res = "panicked"])]
          /\ UNCHANGED proc
     ELSE /\ proc' = [alive |-> FALSE, status |-> 2, by |-> p]
          /\ UNCHANGED cs
  /\ UNCHANGED <<lstate, prio, prefix, flag, out, logch, mu, wk, writes, handed, fileOld,
                 ncalls>>

(***************************************************************************)
(* Getters and setters: l.mu.Lock(); defer l.mu.Unlock(); the field        *)
(***************************************************************************)
muLock(p) ==
  /\ At(p, "lock")
  /\ mu = 0
  /\ mu' = p
  /\ cs' = [cs EXCEPT ![p].pc = "crit"]
  /\ UNCHANGED <<lstate, prio, prefix, flag, out, logch, wk, writes, handed, fileOld,
                 ncalls, proc>>

FieldAccess(p) ==
  /\ At(p, "crit")
  /\ LET c == cs[p]
     IN  /\ prio' = IF c.op = "SetPrio" THEN c.ival ELSE prio
         /\ flag' = IF c.op = "SetFlags" THEN c.ival ELSE flag
         /\ prefix' = IF c.op = "SetPrefix" THEN c.sval ELSE prefix
         /\ cs' = [cs EXCEPT ![p] =
                     [c EXCEPT !.pc = "unlock",
                               !.ival = CASE c.op = "Prio" -> prio
                                          [] c.op = "Flags" -> flag
                                          [] OTHER -> c.ival,
                               !.sval = IF c.op = "Prefix" THEN prefix ELSE c.sval]]
  /\ UNCHANGED <<lstate, out, logch, mu, wk, writes, handed, fileOld, ncalls, proc>>

muUnlock(p) ==
  /\ At(p, "unlock")
  /\ mu' = 0
  /\ cs' = [cs EXCEPT ![p].pc = "done"]
  /\ UNCHANGED <<lstate, prio, prefix, flag, out, logch, wk, writes, handed, fileOld,
                 ncalls, proc>>

(***************************************************************************)
(* Inputs                                                                  *)
(***************************************************************************)
Hello == <<"h", "e", "l", "l", "o">>
Msgs == {<<"x">>, Hello}
RawMsgs == {<<>>, <<"m", "\n">>}

Times ==
  {[year |-> 2009, month |-> 1, day |-> 23, hour |-> 1, min |-> 23, sec |-> 23,
    nsec |-> 123123000]}

Sites ==
  {[ok |-> TRUE, file |-> <<"/", "a", "/", "d", ".", "g", "o">>, line |-> 23],
   [ok |-> FALSE, file |-> <<>>, line |-> 0]}

Frame(i) ==
  IF i % 3 = 0 THEN [known |-> FALSE, file |-> <<>>, line |-> 0, name |-> <<>>]
  ELSE [known |-> TRUE, file |-> <<"/", "m", ".", "g", "o">>, line |-> i, name |-> <<"f">>]
Stack(d) == [i \in 1..d |-> Frame(i)]
Stacks == {Stack(2), Stack(6)}
Depths == {0, 1}

Pfx == <<"p", ":">>
Prefixes == {Pfx}

\* the (prio, prefix, flag) handed to each constructor
NewArgs == {<<LOG_NONE, Pfx, Lmicroseconds + Lshortfile>>}
FilelogArgs == {<<LOG_INFO, <<>>, LstdFlags>>}
SyslogArgs == {<<LOG_EMERG, <<>>, LstdFlags>>}
LoggerArgs == {<<LOG_INFO, Pfx, LstdFlags>>}

Names == {<<"s", "y", "s", "l", "o", "g">>, <<"S", "y", "s", "L", "o", "g">>, OldLog, NoLog}

CallDepths == {2}
OutputPrios == {LOG_ERR}
LoggablePrios == {LOG_DEBUG}
SetPrioArgs == {-1, LOG_DEBUG, LOG_WARNING, LOG_ERR, LOG_CRIT}
SetFlagsArgs == {0, Ldate + Llongfile}

(***************************************************************************)
(* Specification                                                           *)
(***************************************************************************)
Next ==
  \/ \E a \in NewArgs : New(a[1], a[2], a[3])
  \/ \E a \in FilelogArgs, file \in Paths : NewFilelog(file, a[1], a[2], a[3])
  \/ \E a \in SyslogArgs, connected \in BOOLEAN : NewSyslog(connected, a[1], a[2], a[3])
  \/ \E a \in LoggerArgs, name \in Names, connected \in BOOLEAN :
       NewLogger(name, connected, a[1], a[2], a[3])
  \/ \E p \in Procs, cd \in CallDepths, pr \in OutputPrios, s \in RawMsgs :
       Output(p, cd, pr, s)
  \/ \E p \in Procs, d \in Depths : Backtrace(p, d)
  \/ \E p \in Procs, pr \in LoggablePrios : Loggable(p, pr)
  \/ \E p \in Procs, s \in {<<"m", "\n">>} : Printf(p, s)
  \/ \E p \in Procs, s \in {<<>>} : LoggerPrint(p, s)
  \/ \E p \in Procs, s \in {<<>>, Hello} : Fatal(p, s)
  \/ \E p \in Procs, s \in {Hello} : Panic(p, s)
  \/ \E p \in Procs, s \in Msgs : Crit(p, s)
  \/ \E p \in Procs, s \in Msgs : Error(p, s)
  \/ \E p \in Procs, s \in Msgs : Warn(p, s)
  \/ \E p \in Procs, s \in Msgs : Info(p, s)
  \/ \E p \in Procs, s \in Msgs : Debug(p, s)
  \/ \E p \in Procs : Prio(p)
  \/ \E p \in Procs, pr \in SetPrioArgs : SetPrio(p, pr)
  \/ \E p \in Procs : Flags(p)
  \/ \E p \in Procs, fl \in SetFlagsArgs : SetFlags(p, fl)
  \/ \E p \in Procs : Prefix(p)
  \/ \E p \in Procs, pfx \in Prefixes : SetPrefix(p, pfx)
  \/ \E p \in Procs : LoggableRead(p)
  \/ \E p \in Procs, now \in Times : OutputSyslogTest(p, now)
  \/ \E p \in Procs : formatHeaderAny(p)
  \/ \E p \in Procs : formatHeaderDate(p)
  \/ \E p \in Procs : formatHeaderTime(p)
  \/ \E p \in Procs : formatHeaderMicro(p)
  \/ \E p \in Procs, site \in Sites : OutputFileTest(p, site)
  \/ \E p \in Procs : OutputShortTest(p)
  \/ \E p \in Procs, stack \in Stacks : BacktraceBuild(p, stack)
  \/ \E p \in Procs : OutputSend(p)
  \/ \E p \in Procs : BacktraceSend(p)
  \/ \E w \in DOMAIN wk : ffWrite(w)
  \/ \E w \in DOMAIN wk, res \in WriteResults : ffWriteReturn(w, res)
  \/ \E p \in Procs : Exit(p)
  \/ \E p \in Procs, recovered \in BOOLEAN : PanicRaise(p, recovered)
  \/ \E p \in Procs : muLock(p)
  \/ \E p \in Procs : FieldAccess(p)
  \/ \E p \in Procs : muUnlock(p)

Spec == Init /\ [][Next]_vars

(***************************************************************************)
(* The destination                                                         *)
(***************************************************************************)
\* the bytes the Write calls have put out, in call order
RECURSIVE WrittenBytes(_)
WrittenBytes(ws) ==
  IF ws = <<>> THEN <<>>
  ELSE WrittenBytes(SubSeq(ws, 1, Len(ws) - 1))
         \o SubSeq(ws[Len(ws)].data, 1, ws[Len(ws)].n)

\* what the file of NewFilelog holds: opened without O_TRUNC and without
\* O_APPEND, the writes go over the old bytes from offset 0 on
FileContent ==
  LET b == WrittenBytes(writes)
  IN  IF Len(b) >= Len(fileOld) THEN b ELSE b \o SubSeq(fileOld, Len(b) + 1, Len(fileOld))

\* the hand-off h has been through a Write that returned
WriteDone(h) == \E i \in 1..Len(writes) : writes[i].h = h /\ writes[i].done

Pending == {i \in 1..Len(writes) : ~writes[i].done}

(***************************************************************************)
(* Properties                                                              *)
(***************************************************************************)

\* C1: the strings written to the destination are, in order, the strings
\* handed off on logch: write i carries hand-off i unchanged, and every
\* hand-off not yet written is held by exactly one worker.
C1_WritesFollowHandoffs ==
  /\ Len(writes) <= Len(handed)
  /\ \A i \in 1..Len(writes) : writes[i].h = i /\ writes[i].data = handed[i]
  /\ \A h \in (Len(writes) + 1)..Len(handed) :
       Cardinality({w \in DOMAIN wk :
                      wk[w].pc = "write" /\ wk[w].h = h /\ wk[w].s = handed[h]}) = 1

C1_Witness ==
  /\ Len(writes) = 2
  /\ writes[1].done /\ writes[2].done
  /\ writes[1].data # writes[2].data
  /\ cs[1].hs # <<>> /\ cs[2].hs # <<>>

\* C2: at most one Write is in progress, every Write is made by the one worker,
\* and a line a caller formed reaches the destination whole in one Write.
C2_OneWriterOneWrite ==
  /\ Cardinality(Pending) <= 1
  /\ Cardinality(DOMAIN wk) <= 1
  /\ \A i \in 1..Len(writes) :
       /\ writes[i].by = "ff" /\ writes[i].who \in DOMAIN wk
       /\ writes[i].h \in 1..Len(handed)
       /\ \A j \in 1..Len(writes) : writes[j].h = writes[i].h => j = i
  /\ \A p \in Procs : \A k \in 1..Len(cs[p].hs) :
       \A i \in 1..Len(writes) :
         writes[i].h = cs[p].hs[k] => writes[i].data = handed[cs[p].hs[k]]

C2_Witness ==
  /\ Pending # {}
  /\ \E p, q \in Procs :
       /\ p # q
       /\ cs[p].op \in Leveled /\ cs[p].pc = "o316"
       /\ cs[q].op \in Leveled /\ cs[q].hs # <<>>

\* C3: a leveled method of priority P that read a threshold T in NONE..EMERG
\* formats and hands off one line when P >= T, and when P < T has returned
\* from Loggable with nothing formatted and nothing handed off.
C3_LeveledIffLoggable ==
  \A p \in Procs :
    LET c == cs[p]
    IN  (c.op \in Leveled /\ c.thr \in Priorities /\ c.s # <<>>) =>
          IF MethodPrio(c.op) >= c.thr
          THEN /\ c.formatted
               /\ c.pc # "done" => Len(c.hs) = 0
               /\ c.pc = "done" => Len(c.hs) = 1 /\ c.ret = "nil"
          ELSE c.pc = "done" /\ ~c.formatted /\ c.hs = <<>> /\ c.ret = "none"

C3_Witness ==
  \E p, q \in Procs :
    /\ cs[p].op = "Debug" /\ cs[p].thr = LOG_INFO /\ cs[p].pc = "done" /\ cs[p].hs = <<>>
    /\ cs[q].op = "Warn" /\ cs[q].thr = LOG_INFO /\ cs[q].pc = "done" /\ Len(cs[q].hs) = 1

\* C4: when Fatal has ended the process with its os.Exit(1), the EMERG line
\* and the backtrace have both been written to the destination.
C4_FatalWritesBeforeExit ==
  proc.status = 1 =>
    LET c == cs[proc.by]
    IN  c.s # <<>> => Len(c.hs) = 2 /\ WriteDone(c.hs[1]) /\ WriteDone(c.hs[2])

\* C5: Output never returns anything but nil, whatever the Write calls of the
\* destination returned.
C5_OutputReturnsNil ==
  \A p \in Procs :
    LET c == cs[p]
    IN  /\ c.ret \in {"none", "nil"}
        /\ c.hs # <<>> /\ c.op # "Backtrace" => c.ret = "nil"
        /\ c.op = "Output" => c.ret = "nil" \/ c.pc \notin {"done", "idle"}

C5_Witness ==
  \E p \in Procs : \E i \in 1..Len(writes) :
    /\ cs[p].op \in {"Output", "Error"} /\ cs[p].pc = "done" /\ cs[p].ret = "nil"
    /\ cs[p].hs = <<writes[i].h>>
    /\ writes[i].done /\ writes[i].err

\* C6: a Write that fails does not stop the worker and is not tried again:
\* the worker is always receiving or writing, the failed hand-off is in no
\* other Write, and the Writes after it carry later hand-offs.
C6_WorkerSurvivesWriteError ==
  /\ \A w \in DOMAIN wk : wk[w].pc \in {"recv", "write", "writing"}
  /\ \A i \in 1..Len(writes) :
       (writes[i].done /\ writes[i].err) =>
         \A j \in 1..Len(writes) :
           /\ j # i => writes[j].h # writes[i].h
           /\ j > i => writes[j].h > writes[i].h

C6_Witness ==
  \E i, j \in 1..Len(writes) :
    /\ i < j
    /\ writes[i].done /\ writes[i].err
    /\ writes[j].done /\ ~writes[j].err /\ writes[j].data = handed[j]

\* the positions whose next step reads or writes prio, flag or prefix
FieldAccessPcs == {"loggable", "o275", "h232", "h233", "h241", "h250", "o284", "o291", "crit"}

\* C7: whoever is about to read or write prio, flag or prefix holds mu (so
\* that no read of a field meets a setter's write of it).
C7_FieldAccessUnderMutex ==
  \A p \in Procs : cs[p].pc \in FieldAccessPcs => mu = p

\* C8: once every line handed to a file logger has been written in full, the
\* file holds those lines and nothing else.
C8_FilelogErasesOldContent ==
  (/\ out = "file"
   /\ Len(writes) = Len(handed)
   /\ \A i \in 1..Len(writes) : writes[i].done /\ ~writes[i].err)
    => FileContent = Concat(handed)

\* C9: a Backtrace call reads no threshold and hands off one string, the raw
\* block beginning "Backtrace:", which goes to the destination in one Write.
C9_BacktraceIgnoresThreshold ==
  \A p \in Procs :
    LET c == cs[p]
    IN  (c.op = "Backtrace" /\ c.pc = "done") =>
          /\ c.thr = -2
          /\ Len(c.hs) = 1
          /\ IsPrefix(BacktraceHead, handed[c.hs[1]])
          /\ \A i \in 1..Len(writes) :
               writes[i].h = c.hs[1] => writes[i].data = handed[c.hs[1]]

C9_Witness ==
  \E p \in Procs :
    /\ prio = LOG_EMERG /\ mu = 0
    /\ \A q \in Procs : cs[q].op # "SetPrio"
    /\ cs[p].op = "Backtrace" /\ cs[p].pc = "done"
    /\ Len(cs[p].hs) = 1 /\ WriteDone(cs[p].hs[1])

\* the scenario of C10: a file logger made with threshold INFO and flags
\* {date, time}; one caller has made Debug("x"), the other Info("hello"), and
\* both calls have returned
HelloLine ==
  <<"2", "0", "0", "9", "/", "0", "1", "/", "2", "3", " ",
    "0", "1", ":", "2", "3", ":", "2", "3", " ", "h", "e", "l", "l", "o", "\n">>
C10_Scenario ==
  /\ out = "file" /\ prio = LOG_INFO /\ flag = LstdFlags
  /\ ncalls = 2
  /\ \E p, q \in Procs :
       /\ cs[p].op = "Debug" /\ cs[p].s = <<"x">> /\ cs[p].pc = "done"
       /\ cs[q].op = "Info" /\ cs[q].s = Hello /\ cs[q].pc = "done"

\* C10 as stated: the scenario leaves one line, which begins with the date.
C10_LineBeginsWithDate == C10_Scenario => handed = <<HelloLine>>

\* C10 amended: the scenario leaves one line: the tag <2>: and then date,
\* space, time, space, hello, newline.
C10_LineBeginsWithTag ==
  C10_Scenario =>
    /\ handed = << <<"<", "2", ">", ":">> \o HelloLine >>
    /\ \A i \in 1..Len(writes) : writes[i].data = handed[1]

C10_Witness ==
  /\ C10_Scenario
  /\ Len(writes) = 1 /\ writes[1].done /\ ~writes[1].err
  /\ FileContent = handed[1]

\* the calls that go through Output: the first string such a call hands off
\* is the line Output built
OutputOps == {"Output", "Printf", "Print", "Fatal", "Panic"} \cup Leveled

\* C11: every line Output hands off begins with the prefix of the Logger (a
\* Logger made by New has the prefix "p:" from its construction on, and
\* SetPrefix sets no other).
C11_LineBeginsWithPrefix ==
  (out = "writer" /\ prefix = Pfx) =>
    \A p \in Procs :
      (cs[p].op \in OutputOps /\ cs[p].hs # <<>>) => IsPrefix(prefix, handed[cs[p].hs[1]])

(***************************************************************************)
(* The formatter under every flag set: Loggers made by New and NewSyslog   *)
(* with any of the 64 flag sets, Output called with and without a call     *)
(* depth, SetFlags running beside it                                       *)
(***************************************************************************)
AllFlags == 0..(2 * Lsyslog - 1)
FormatDepths == {0, 2}
FormatPrios == {LOG_DEBUG, LOG_EMERG}
FormatMsgs == {<<>>, <<"m">>}
FormatSetFlags == {0, Lsyslog + Ldate}

NextFormat ==
  \/ \E fl \in AllFlags : New(LOG_NONE, Pfx, fl)
  \/ \E fl \in AllFlags, connected \in BOOLEAN : NewSyslog(connected, LOG_EMERG, <<>>, fl)
  \/ \E p \in Procs, cd \in FormatDepths, pr \in FormatPrios, s \in FormatMsgs :
       Output(p, cd, pr, s)
  \/ \E p \in Procs, fl \in FormatSetFlags : SetFlags(p, fl)
  \/ \E p \in Procs, now \in Times : OutputSyslogTest(p, now)
  \/ \E p \in Procs : formatHeaderAny(p)
  \/ \E p \in Procs : formatHeaderDate(p)
  \/ \E p \in Procs : formatHeaderTime(p)
  \/ \E p \in Procs : formatHeaderMicro(p)
  \/ \E p \in Procs, site \in Sites : OutputFileTest(p, site)
  \/ \E p \in Procs : OutputShortTest(p)
  \/ \E p \in Procs : OutputSend(p)
  \/ \E w \in DOMAIN wk : ffWrite(w)
  \/ \E w \in DOMAIN wk, res \in WriteResults : ffWriteReturn(w, res)
  \/ \E p \in Procs : muLock(p)
  \/ \E p \in Procs : FieldAccess(p)
  \/ \E p \in Procs : muUnlock(p)

FormatSpec == Init /\ [][NextFormat]_vars

\* what Output appends after tag and header: the file information, when it
\* looked the caller up, then s and its newline
LineText(c) ==
  (IF c.file # <<>> THEN FileInfoText(c.file, c.line) ELSE <<>>) \o WithNewline(<<>>, c.s)

\* C12: an Output call that finds the syslog flag set at line 275 does not
\* call formatHeader, and its line is the file information and the message
\* with no tag and no header, whatever the other flags are; a call that
\* finds it clear builds the tag <N>: of its priority, then what formatHeader
\* returned, then the rest; and that line is what it hands off.
C12_TagUnlessSyslog ==
  [][\A p \in Procs :
       /\ (cs[p].pc = "o275" /\ cs'[p].pc # "o275") =>
            IF Has(flag, Lsyslog)
            THEN cs'[p].now = ZeroTime /\ cs'[p].hdr = <<>> /\ cs'[p].pc \in {"o284", "o316"}
            ELSE cs'[p].now \in Times /\ cs'[p].pc = "h232"
       /\ cs'[p].pc = "o316" =>
            IF cs'[p].now = ZeroTime
            THEN cs'[p].buf = LineText(cs'[p])
            ELSE cs'[p].buf = <<"<">> \o Decimal(cs'[p].prio) \o <<">", ":">>
                                \o cs'[p].hdr \o LineText(cs'[p])
       /\ (cs[p].pc = "o316" /\ cs'[p].pc # "o316") => handed' = Append(handed, cs[p].buf)
    ]_vars

\* every flag is set, the syslog flag among them: the line is "(d.go:23) m"
C12_Witness ==
  /\ flag = 2 * Lsyslog - 1
  /\ \E p \in Procs : cs[p].op = "Output" /\ cs[p].pc = "done" /\ cs[p].prio = LOG_EMERG
  /\ handed = << <<"(", "d", ".", "g", "o", ":", "2", "3", ")", " ", "m", "\n">> >>
  /\ Len(writes) = 1 /\ writes[1].done

\* the hand-offs the worker has received and not yet taken through a Write
\* that returned
InWorker == {h \in 1..Len(handed) : ~WriteDone(h)}

\* Output has returned in the call c; Backtrace has returned in the call c
OutputReturned(c) ==
  \/ c.pc = "done" /\ c.op \in {"Output", "Printf", "Print", "Panic"}
  \/ c.pc = "done" /\ c.op \in Leveled /\ c.formatted
  \/ c.pc \in {"bt329", "bt352", "exit", "panic"} /\ c.op \in {"Fatal", "Panic"}
BacktraceReturned(c) ==
  \/ c.pc = "done" /\ c.op \in {"Backtrace", "Panic"}
  \/ c.pc \in {"exit", "panic"}

\* C13: the worker holds at most one string it has received and not yet
\* written, and a call in which Output (with a message that is not empty) or
\* Backtrace has returned has had each of those strings received.
C13_Rendezvous ==
  /\ Cardinality(InWorker) <= 1
  /\ \A p \in Procs :
       LET c == cs[p]
           lines == IF OutputReturned(c) /\ c.s # <<>> THEN 1 ELSE 0
           blocks == IF BacktraceReturned(c) THEN 1 ELSE 0
       IN  /\ (OutputReturned(c) \/ BacktraceReturned(c)) => Len(c.hs) = lines + blocks
           /\ \A k \in 1..Len(c.hs) : c.hs[k] \in 1..Len(handed)
           /\ (OutputReturned(c) /\ c.s # <<>> /\ c.op = "Output") =>
                LET line == handed[c.hs[1]]
                    tail == WithNewline(<<>>, c.s)
                IN  Len(line) >= Len(tail) /\ SubSeq(line, Len(line) - Len(tail) + 1, Len(line)) = tail

\* one caller is back from Output, its line is with the worker and not yet
\* written, and the other caller waits at the send
C13_Witness ==
  \E p, q \in Procs :
    /\ cs[p].op = "Output" /\ cs[p].pc = "done" /\ Len(cs[p].hs) = 1
    /\ InWorker = {cs[p].hs[1]}
    /\ cs[q].pc = "o316"
    /\ \A w \in DOMAIN wk : wk[w].pc = "writing"

\* the caller p is at the send of Output or of Backtrace
AtSend(p) == cs[p].pc \in {"o316", "bt352"}

\* no goroutine running ff waits to receive: each is between its receive and
\* the return of its Write
WorkerBusy == \A w \in DOMAIN wk : wk[w].pc # "recv"

\* C14: no step taken while the worker is inside a Write moves a caller that
\* is at the send: the caller leaves the send by nothing but a receive of the
\* worker, so it stays there for as long as the Write does not return.
C14_NoTimeout ==
  [][\A p \in Procs :
       (AtSend(p) /\ WorkerBusy) => (cs'[p] = cs[p] /\ handed' = handed)]_vars

\* the worker is inside a Write, one caller waits at the send of Backtrace and
\* the other at the send of Output
C14_Witness ==
  /\ \E w \in DOMAIN wk : wk[w].pc = "writing"
  /\ \E p, q \in Procs : cs[p].pc = "bt352" /\ cs[q].pc = "o316"

(***************************************************************************)
(* The getters and setters beside logging calls, with a destination whose  *)
(* Write may never return: fairness is stated for the steps of the getters *)
(* and setters alone.  sync.Mutex hands a waiter the lock in the end       *)
(* (starvation mode), which is strong fairness of Lock.                    *)
(***************************************************************************)
NextMutex ==
  \/ \E a \in NewArgs : New(a[1], a[2], a[3])
  \/ \E p \in Procs, s \in {<<"m", "\n">>} : Output(p, 0, LOG_ERR, s)
  \/ \E p \in Procs, s \in {Hello} : Fatal(p, s)
  \/ \E p \in Procs : Prio(p)
  \/ \E p \in Procs, pr \in {LOG_CRIT} : SetPrio(p, pr)
  \/ \E p \in Procs : Flags(p)
  \/ \E p \in Procs, fl \in {Ldate + Llongfile} : SetFlags(p, fl)
  \/ \E p \in Procs : Prefix(p)
  \/ \E p \in Procs, pfx \in Prefixes : SetPrefix(p, pfx)
  \/ \E p \in Procs, now \in Times : OutputSyslogTest(p, now)
  \/ \E p \in Procs : formatHeaderAny(p)
  \/ \E p \in Procs : formatHeaderDate(p)
  \/ \E p \in Procs : formatHeaderTime(p)
  \/ \E p \in Procs : formatHeaderMicro(p)
  \/ \E p \in Procs, site \in Sites : OutputFileTest(p, site)
  \/ \E p \in Procs : OutputShortTest(p)
  \/ \E p \in Procs, stack \in {Stack(2)} : BacktraceBuild(p, stack)
  \/ \E p \in Procs : OutputSend(p)
  \/ \E p \in Procs : BacktraceSend(p)
  \/ \E w \in DOMAIN wk : ffWrite(w)
  \/ \E w \in DOMAIN wk, res \in WriteResults : ffWriteReturn(w, res)
  \/ \E p \in Procs : Exit(p)
  \/ \E p \in Procs : muLock(p)
  \/ \E p \in Procs : FieldAccess(p)
  \/ \E p \in Procs : muUnlock(p)

MutexFairness ==
  \A p \in Procs :
    SF_vars(muLock(p)) /\ WF_vars(FieldAccess(p)) /\ WF_vars(muUnlock(p))

MutexSpec == Init /\ [][NextMutex]_vars /\ MutexFairness

Accessors == {"Prio", "SetPrio", "Flags", "SetFlags", "Prefix", "SetPrefix"}

\* C15: a caller at the send of Output or Backtrace never holds mu; whoever
\* holds mu is inside a getter or setter, between its Lock and its Unlock;
\* and every getter or setter that has been called returns (unless the
\* process ends first), also when callers wait at the send and the Write of
\* the worker never returns.
C15_AccessorsComplete ==
  /\ [](\A p \in Procs : AtSend(p) => mu # p)
  /\ [](mu # 0 => (mu \in Procs /\ cs[mu].pc \in {"crit", "unlock"} /\ cs[mu].op \in Accessors))
  /\ \A p \in Procs : (cs[p].pc = "lock") ~> (cs[p].pc = "done" \/ ~Running)

\* a setter holds mu while the other caller waits at the send of Backtrace
\* and the worker is inside a Write
C15_Witness ==
  \E p, q \in Procs :
    /\ mu = p /\ cs[p].op = "SetPrio" /\ cs[p].pc = "unlock"
    /\ cs[q].pc = "bt352"
    /\ \A w \in DOMAIN wk : wk[w].pc = "writing"

\* C16: before a constructor has returned, and after one has returned an
\* error, there is no channel, no worker and no destination, and no call is
\* made; after one has returned a Logger there is its channel and exactly one
\* worker, and no step after that changes which worker, channel or
\* destination the Logger has.
C16_AllOrNothing ==
  /\ [](lstate \in {"none", "failed"} =>
          (wk = <<>> /\ logch = "nil" /\ out = "none" /\ ncalls = 0 /\ handed = <<>>))
  /\ [](lstate = "active" =>
          (Cardinality(DOMAIN wk) = 1 /\ logch = "open" /\ out \in {"writer", "file", "syslog"}))
  /\ [][lstate # "none" =>
          (lstate' = lstate /\ DOMAIN wk' = DOMAIN wk /\ logch' = logch /\ out' = out)]_vars

\* a constructor has failed
C16_Witness ==
  /\ lstate = "failed"
  /\ DOMAIN wk = {} /\ logch = "nil"

\* C17: a call of Output with an empty s has returned nil as soon as it is
\* made, with nothing handed off; the step that makes it leaves the fields of
\* the Logger, the worker, the hand-offs and the Writes as they were.
C17_EmptyOutputNoOp ==
  /\ [](\A p \in Procs :
          (cs[p].op = "Output" /\ cs[p].s = <<>>) =>
            (cs[p].pc = "done" /\ cs[p].ret = "nil" /\ cs[p].hs = <<>> /\ cs[p].buf = <<>>))
  /\ [][\A p \in Procs :
          (cs'[p] # cs[p] /\ cs'[p].op = "Output" /\ cs'[p].s = <<>>) =>
            /\ cs[p].pc \in {"idle", "done"}
            /\ ncalls' = ncalls + 1
            /\ UNCHANGED <<lstate, prio, prefix, flag, out, logch, mu, wk, writes, handed>>
     ]_vars

\* a caller has had a line received, the worker has not finished the Write
\* of it, and the same caller's next call, Output with an empty s, has
\* returned
C17_Witness ==
  \E p \in Procs :
    /\ cs[p].op = "Output" /\ cs[p].s = <<>> /\ cs[p].pc = "done" /\ cs[p].ret = "nil"
    /\ \A q \in Procs \ {p} : cs[q].pc = "idle"
    /\ Len(handed) = 1 /\ InWorker = {1}
    /\ \A w \in DOMAIN wk : wk[w].pc = "writing"

(***************************************************************************)
(* Backtrace on shallow and deep stacks: the first caller runs 3 frames    *)
(* above the skipped ones, the others more than the 64 that pc holds       *)
(***************************************************************************)
CallerStack(p) == Stack(IF p = 1 THEN 3 ELSE PcCap + p + 1)
BtDepths == {-1, 0, 2, 3, PcCap - 1, PcCap + 1}

NextBacktrace ==
  \/ \E file \in {XLog} : NewFilelog(file, LOG_EMERG, <<>>, LstdFlags)
  \/ \E p \in Procs, d \in BtDepths : Backtrace(p, d)
  \/ \E p \in Procs : BacktraceBuild(p, CallerStack(p))
  \/ \E p \in Procs : BacktraceSend(p)
  \/ \E w \in DOMAIN wk : ffWrite(w)
  \/ \E w \in DOMAIN wk, res \in WriteResults : ffWriteReturn(w, res)

BacktraceSpec == Init /\ [][NextBacktrace]_vars

\* the frame lines of a backtrace block: each entry of the block, the blank
\* one at the end too, follows a newline and four spaces
FrameLines(text) ==
  Cardinality({i \in 1..(Len(text) - 4) :
                 SubSeq(text, i, i + 4) = <<"\n", " ", " ", " ", " ">>}) - 1

\* the frames available to Backtrace in the caller p
Available(p) == IF Len(CallerStack(p)) > 64 THEN 64 ELSE Len(CallerStack(p))

\* C18: a Backtrace call that has returned has handed off one block;
\* Backtrace(0) renders all available frames, Backtrace(n) with n between 0
\* and the available frames renders n of them, no depth renders more than
\* are available, and the block ends with the blank entry.
C18_BacktraceFrameCount ==
  \A p \in Procs :
    LET c == cs[p]
    IN  (c.op = "Backtrace" /\ c.pc = "done") =>
          /\ Len(c.hs) = 1
          /\ LET text == handed[c.hs[1]]
                 a == Available(p)
             IN  /\ c.depth = 0 => FrameLines(text) = a
                 /\ (0 < c.depth /\ c.depth < a) => FrameLines(text) = c.depth
                 /\ FrameLines(text) <= a
                 /\ FrameLines(text) >= 0
                 /\ SubSeq(text, Len(text) - 5, Len(text)) = <<"\n", " ", " ", " ", " ", "\n">>
          /\ Cardinality({q \in Procs : \E k \in 1..Len(cs[q].hs) : cs[q].hs[k] = c.hs[1]}) = 1

\* Backtrace(63) on the deep stack has rendered 63 of the 64 frames, and
\* Backtrace(0) on the shallow one all 3
C18_Witness ==
  /\ cs[1].op = "Backtrace" /\ cs[1].pc = "done" /\ cs[1].depth = 0
  /\ FrameLines(handed[cs[1].hs[1]]) = 3
  /\ cs[2].op = "Backtrace" /\ cs[2].pc = "done" /\ cs[2].depth = 63
  /\ FrameLines(handed[cs[2].hs[1]]) = 63

(***************************************************************************)
(* Logging calls that run to their end: the process is not ended (no       *)
(* Fatal, no Panic), every Write returns, and the goroutines are scheduled *)
(* fairly.  A goroutine that can take a step of its own takes it (weak     *)
(* fairness); a sender blocked on logch is served when the worker receives *)
(* often enough (strong fairness: the runtime queues blocked senders in    *)
(* arrival order).                                                         *)
(***************************************************************************)
NextLive ==
  \/ \E a \in NewArgs : New(a[1], a[2], a[3])
  \/ \E p \in Procs, cd \in CallDepths, pr \in OutputPrios, s \in RawMsgs :
       Output(p, cd, pr, s)
  \/ \E p \in Procs, d \in Depths : Backtrace(p, d)
  \/ \E p \in Procs, s \in {Hello} : Info(p, s)
  \/ \E p \in Procs, s \in {Hello} : Debug(p, s)
  \/ \E p \in Procs : LoggableRead(p)
  \/ \E p \in Procs, now \in Times : OutputSyslogTest(p, now)
  \/ \E p \in Procs : formatHeaderAny(p)
  \/ \E p \in Procs : formatHeaderDate(p)
  \/ \E p \in Procs : formatHeaderTime(p)
  \/ \E p \in Procs : formatHeaderMicro(p)
  \/ \E p \in Procs, site \in Sites : OutputFileTest(p, site)
  \/ \E p \in Procs : OutputShortTest(p)
  \/ \E p \in Procs, stack \in Stacks : BacktraceBuild(p, stack)
  \/ \E p \in Procs : OutputSend(p)
  \/ \E p \in Procs : BacktraceSend(p)
  \/ \E w \in DOMAIN wk : ffWrite(w)
  \/ \E w \in DOMAIN wk, res \in WriteResults : ffWriteReturn(w, res)

\* the steps a caller takes on its own, and its sends
CallerStep(p) ==
  \/ LoggableRead(p)
  \/ \E now \in Times : OutputSyslogTest(p, now)
  \/ formatHeaderAny(p) \/ formatHeaderDate(p) \/ formatHeaderTime(p) \/ formatHeaderMicro(p)
  \/ \E site \in Sites : OutputFileTest(p, site)
  \/ OutputShortTest(p)
  \/ \E stack \in Stacks : BacktraceBuild(p, stack)
CallerSend(p) == OutputSend(p) \/ BacktraceSend(p)

\* the steps of the worker; that of ffWriteReturn says every Write returns
WorkerStep == \E w \in DOMAIN wk : ffWrite(w) \/ \E res \in WriteResults : ffWriteReturn(w, res)

LiveFairness ==
  /\ \A p \in Procs : WF_vars(CallerStep(p)) /\ SF_vars(CallerSend(p))
  /\ WF_vars(WorkerStep)

LiveSpec == Init /\ [][NextLive]_vars /\ LiveFairness

\* C19: every call that has begun returns, a caller at the send has its string
\* received and returns, and every string received goes through a Write that
\* returns.
C19_CallsComplete ==
  /\ \A p \in Procs : (cs[p].pc \notin {"idle", "done"}) ~> (cs[p].pc = "done")
  /\ \A p \in Procs : AtSend(p) ~> (cs[p].pc = "done" /\ Len(cs[p].hs) = 1)
  /\ \A h \in 1..MaxCalls : (Len(handed) >= h) ~> WriteDone(h)

\* both callers have sent, one from Output and one from Backtrace, and both
\* strings have been through a Write that returned
C19_Witness ==
  \E p, q \in Procs :
    /\ cs[p].op = "Output" /\ cs[p].pc = "done" /\ Len(cs[p].hs) = 1
    /\ cs[q].op = "Backtrace" /\ cs[q].pc = "done" /\ Len(cs[q].hs) = 1
    /\ WriteDone(cs[p].hs[1]) /\ WriteDone(cs[q].hs[1])

\* C20: a Logger made by the syslog constructor has the syslog flag set in
\* every state, and no line handed off by it begins with a priority tag.
C20_SyslogKeepsFlag ==
  out = "syslog" =>
    /\ Has(flag, Lsyslog)
    /\ \A h \in 1..Len(handed) : handed[h][1] # "<"

====
